---- MODULE Spec2Model ----
(***************************************************************************)
(* A model of stackinator's stack-synchronisation engine (cmd runSync)     *)
(* and of the graph operations it rests on (internal/stack).               *)
(*                                                                         *)
(* The repository, the remote and the review service are the world; one    *)
(* invocation of `stack sync` is a sequence of steps over it.  Every       *)
(* external command that can fail fails nondeterministically.  The git     *)
(* config store is the exception: it is writable or not for a whole        *)
(* behaviour (configWritable), and Spec fixes it to writable.              *)
(***************************************************************************)
EXTENDS Integers, Sequences, FiniteSets, TLC

\* ------------------------------------------------------------------ names

Base == "main"
Branches == {"a", "b", "c"}
AllBranches == Branches \cup {Base}
NoBranch == ""

\* sort.Strings orders branch names bytewise; NameOrder lists them in that order
NameOrder == <<"a", "b", "c", "main">>
Rank(n) == CHOOSE i \in 1..Len(NameOrder) : NameOrder[i] = n
NameLess(x, y) == Rank(x) < Rank(y)

Range(s) == {s[i] : i \in 1..Len(s)}

\* bounds of the environment's answers and of the stash stack
MaxUnique == 1
MaxAll == 3
MaxStash == 2

\* ------------------------------------------------------------ stack store

StackBranch(n, p) == [Name |-> n, Parent |-> p]

\* GetStackBranches: one StackBranch per configured branch.<name>.stackparent
GetStackBranches(par) == {StackBranch(b, par[b]) : b \in {x \in DOMAIN par : par[x] # NoBranch}}

\* Go iterates a map in an unspecified order: every ordering of a set
Orderings(S) == {s \in [1..Cardinality(S) -> S] : \A i, j \in 1..Cardinality(S) : i # j => s[i] # s[j]}

RECURSIVE ChainWalk(_, _, _, _)
ChainWalk(par, current, seen, chain) ==
    IF current = NoBranch THEN [err |-> FALSE, chain |-> chain]
    ELSE IF current \in seen THEN [err |-> TRUE, chain |-> <<>>]
    ELSE LET next == <<current>> \o chain
             parent == IF current \in DOMAIN par THEN par[current] ELSE NoBranch
         IN  IF parent = NoBranch THEN [err |-> FALSE, chain |-> next]
             ELSE ChainWalk(par, parent, seen \cup {current}, next)

\* variant: the walk is made also from a branch that has no parent
GetStackChain_AlwaysWalks(par, branch) == ChainWalk(par, branch, {}, <<>>)

\* GetStackChain: the chain from the root to branch, empty when branch has no parent
GetStackChain(par, branch) ==
    IF branch \notin DOMAIN par \/ par[branch] = NoBranch
    THEN [err |-> FALSE, chain |-> <<>>]
    ELSE ChainWalk(par, branch, {}, <<>>)

\* ---------------------------------------------------------------- graph ops

RECURSIVE InsertSorted(_, _)
InsertSorted(s, x) ==
    IF s = <<>> THEN <<x>>
    ELSE IF NameLess(x, Head(s)) THEN <<x>> \o s
    ELSE <<Head(s)>> \o InsertSorted(Tail(s), x)

\* variant: the queue is popped in the order it was filled
SortStrings_Unsorted(s) == s

RECURSIVE SortStrings(_)
SortStrings(s) == IF s = <<>> THEN <<>> ELSE InsertSorted(SortStrings(Tail(s)), Head(s))

\* children[p]: the names whose Parent is p, in input order
ChildrenOf(branches, p) ==
    LET kids == SelectSeq(branches, LAMBDA b : b.Parent = p)
    IN  [i \in 1..Len(kids) |-> kids[i].Name]

\* inDegree after the first loop of TopologicalSort
InDegreeOf(branches, n) == Cardinality({i \in 1..Len(branches) : branches[i].Name = n})

TopoNodes(branches) == {branches[i].Name : i \in 1..Len(branches)} \cup {branches[i].Parent : i \in 1..Len(branches)}

BranchNamed(branches, n) == branches[CHOOSE i \in 1..Len(branches) : branches[i].Name = n]

\* one pass over children[current]: decrement, enqueue at zero
RECURSIVE Release(_, _, _)
Release(kids, deg, queue) ==
    IF kids = <<>> THEN [deg |-> deg, queue |-> queue]
    ELSE LET c == Head(kids)
             d == [deg EXCEPT ![c] = deg[c] - 1]
         IN  Release(Tail(kids), d, IF d[c] = 0 THEN Append(queue, c) ELSE queue)

RECURSIVE Kahn(_, _, _, _)
Kahn(branches, queue, deg, sorted) ==
    IF queue = <<>> THEN [deg |-> deg, sorted |-> sorted]
    ELSE LET q == SortStrings(queue)
             current == Head(q)
             out == IF \E i \in 1..Len(branches) : branches[i].Name = current
                    THEN Append(sorted, BranchNamed(branches, current))
                    ELSE sorted
             rel == Release(ChildrenOf(branches, current), deg, Tail(q))
         IN  Kahn(branches, rel.queue, rel.deg, out)

\* variant: the branches are returned in the order they came in
TopologicalSort_InputOrder(branches) == [err |-> FALSE, sorted |-> branches]

\* variant: the in-degrees left over after the run are not looked at
TopologicalSort_NoCycleCheck(branches) ==
    LET nodes == TopoNodes(branches)
        deg0 == [n \in nodes |-> InDegreeOf(branches, n)]
        parentsSeen == {branches[i].Parent : i \in 1..Len(branches)}
        roots == {p \in parentsSeen : deg0[p] = 0}
        queue0 == CHOOSE s \in Orderings(roots) : TRUE
    IN  [err |-> FALSE, sorted |-> Kahn(branches, queue0, deg0, <<>>).sorted]

\* TopologicalSort: Kahn's algorithm, the queue re-sorted before every pop
TopologicalSort(branches) ==
    LET nodes == TopoNodes(branches)
        deg0 == [n \in nodes |-> InDegreeOf(branches, n)]
        parentsSeen == {branches[i].Parent : i \in 1..Len(branches)}
        roots == {p \in parentsSeen : deg0[p] = 0}
        queue0 == CHOOSE s \in Orderings(roots) : TRUE
        run == Kahn(branches, queue0, deg0, <<>>)
        stuck == \E i \in 1..Len(branches) : run.deg[branches[i].Name] > 0
    IN  IF stuck THEN [err |-> TRUE, sorted |-> <<>>]
        ELSE [err |-> FALSE, sorted |-> run.sorted]


\* ------------------------------------------------------------------ state

VARIABLES
    \* the repository, the remote and the review service
    parents,              \* branch.<name>.stackparent, NoBranch when unset
    cfgStashed,           \* stack.sync.stashed = "true"
    cfgOriginal,          \* stack.sync.originalBranch, NoBranch when unset
    currentBranch,        \* the branch checked out in this worktree
    dirty,                \* the working tree has uncommitted changes
    stash,                \* the stash stack: the branch each entry was taken on
    rebaseInProgress,
    cherryPickInProgress,
    pr,                   \* the review service's record per head branch
    remote,               \* the branches that exist on origin
    tracking,             \* the branches with a refs/remotes/origin/<name> ref
    otherWorktrees,       \* the branches checked out in another worktree
    localBranches,        \* the branches that exist in the local repository
    configWritable,       \* the config store accepts writes
    \* one invocation of runSync
    pc, mode, syncForce, originalBranch, stashed, rebaseConflict, success,
    chain, stackBranchSet, sorted, idx, branchParent, oldParent, prCache,
    fetchJob, prJob, remoteBranches, branchExistsOnRemote, result,
    \* what the invocation has done so far
    errKind,              \* which return statement produced the error
    pushed,               \* branches pushed to origin, in the order of the pushes
    prEdits,              \* <<branch, newBase>> of every UpdatePRBase call
    touched,              \* branches the invocation acted on
    popLog,               \* one entry per StashPop call
    lastCmd,              \* the latest command of the current loop iteration
    iterPushed,           \* the current iteration has pushed its branch
    sessionStashed,       \* the last fresh start took a stash
    followUp              \* this is the invocation that follows an earlier one

worldVars == <<parents, cfgStashed, cfgOriginal, currentBranch, dirty, stash,
               rebaseInProgress, cherryPickInProgress, pr, remote, tracking,
               otherWorktrees, localBranches, configWritable>>
planVars == <<chain, stackBranchSet, sorted>>
iterVars == <<idx, branchParent, oldParent, branchExistsOnRemote, lastCmd, iterPushed>>
flagVars == <<mode, syncForce, originalBranch, stashed, rebaseConflict, success>>
jobVars == <<prCache, fetchJob, prJob, remoteBranches>>
session == <<sessionStashed, followUp>>
ghostVars == <<pushed, prEdits, touched, popLog, session>>
vars == <<worldVars, pc, result, errKind, planVars, iterVars, flagVars, jobVars, ghostVars>>

NoPR == [State |-> "NONE", Base |-> NoBranch]
PRStates == {"OPEN", "MERGED"}
EmptyCache == [b \in AllBranches |-> NoPR]

Cmd(op, arg, kind, ok) == [op |-> op, arg |-> arg, kind |-> kind, ok |-> ok]
NoCmd == Cmd("none", NoBranch, "", TRUE)

\* ------------------------------------------------------------------- Init

EdgeMap(pa, pb, pc0) == [x \in AllBranches |->
    IF x = "a" THEN pa ELSE IF x = "b" THEN pb ELSE IF x = "c" THEN pc0 ELSE NoBranch]

\* the stacks a repository starts with: a chain, a tree with two heads, two
\* stacks, a stack beside a branch that is in no stack
InitParents == { EdgeMap("main", "a", "b"), EdgeMap("main", "a", "a"),
                 EdgeMap("main", "a", "main"), EdgeMap("main", "a", NoBranch) }

InitPRs == { [b \in Branches |-> IF b = "a" THEN (IF sa = "NONE" THEN NoPR ELSE [State |-> sa, Base |-> Base])
                                     ELSE IF b = "b" THEN (IF sb = "NONE" THEN NoPR ELSE [State |-> sb, Base |-> Base])
                                     ELSE [State |-> "OPEN", Base |-> Base]]
             : sa \in {"NONE", "MERGED"}, sb \in {"NONE", "OPEN", "MERGED"} }

LocalsIdle ==
    /\ pc = "idle" /\ mode = "none" /\ syncForce = FALSE /\ originalBranch = NoBranch
    /\ stashed = FALSE /\ rebaseConflict = FALSE /\ success = FALSE
    /\ chain = <<>> /\ stackBranchSet = {} /\ sorted = <<>> /\ idx = 0
    /\ branchParent = NoBranch /\ oldParent = NoBranch /\ prCache = EmptyCache
    /\ fetchJob = "idle" /\ prJob = "idle" /\ remoteBranches = {}
    /\ branchExistsOnRemote = FALSE
    /\ result = "none" /\ errKind = "" /\ pushed = <<>> /\ prEdits = {}
    /\ touched = {} /\ popLog = {} /\ lastCmd = NoCmd /\ iterPushed = FALSE

\* origin and the other worktrees: everything pushed, the root branch never
\* pushed, the root branch checked out in a second worktree
InitSites == { <<AllBranches, {}>>, <<AllBranches \ {"a"}, {}>>, <<AllBranches, {"a"}>> }

InitWorld ==
    /\ cfgStashed = FALSE /\ cfgOriginal = NoBranch
    /\ dirty \in BOOLEAN
    /\ stash = <<>>
    /\ rebaseInProgress = FALSE /\ cherryPickInProgress = FALSE
    /\ tracking = {Base}
    /\ \/ /\ currentBranch = "c"
          /\ parents \in InitParents
          /\ pr \in InitPRs
          /\ \E site \in InitSites : remote = site[1] /\ otherWorktrees = site[2]
       \/ /\ currentBranch = Base
          /\ parents = EdgeMap("main", "a", "b")
          /\ pr = [b \in Branches |-> NoPR]
          /\ remote = AllBranches /\ otherWorktrees = {}

Init == InitWorld /\ localBranches = AllBranches /\ configWritable = TRUE /\ LocalsIdle /\ sessionStashed = FALSE /\ followUp = FALSE

\* ------------------------------------------------------- config and stash

\* variant: a record left by an earlier sync is never seen
HasSavedState_Never == FALSE

HasSavedState == cfgStashed \/ cfgOriginal # NoBranch

\* UnsetConfig of both resume-record keys (errors ignored by every caller)
ClearedStashed == IF configWritable THEN FALSE ELSE cfgStashed
ClearedOriginal == IF configWritable THEN NoBranch ELSE cfgOriginal

PopEntry(ok) == [on |-> currentBranch,
                 took |-> IF stash = <<>> THEN NoBranch ELSE stash[Len(stash)],
                 ok |-> ok /\ stash # <<>>]

\* variant: StashPop leaves the stash as it is
StashAfterPop_Keeps(ok) == stash

\* StashPop: restores the top entry onto the working tree, or fails
StashAfterPop(ok) == IF ok /\ stash # <<>> THEN SubSeq(stash, 1, Len(stash) - 1) ELSE stash
DirtyAfterPop(ok) == IF ok /\ stash # <<>> THEN TRUE ELSE dirty

\* a return statement reached after the defer was registered
Return(res, kind) == pc' = "return" /\ result' = res /\ errKind' = kind

\* a return statement reached before the defer was registered
ReturnEarly(res, kind) == pc' = "done" /\ result' = res /\ errKind' = kind

\* ------------------------------------------------------- entry: the modes

ParentOf(b) == IF b \in DOMAIN parents THEN parents[b] ELSE NoBranch

\* variant: abort looks at the resume record only
AbortRefuses_RecordOnly == ~HasSavedState

\* abort has nothing to act on
AbortRefuses == ~HasSavedState /\ ~cherryPickInProgress /\ ~rebaseInProgress

\* sync --abort
SyncAbort(cpOk, rbOk, popOk, coOk) ==
    /\ pc = "idle"
    /\ mode' = "abort"
    /\ IF AbortRefuses
       THEN /\ ReturnEarly("err", "no interrupted sync to abort")
            /\ UNCHANGED <<worldVars, popLog>>
       ELSE /\ cherryPickInProgress' = (cherryPickInProgress /\ ~cpOk)
            /\ rebaseInProgress' = (rebaseInProgress /\ ~rbOk)
            /\ stash' = IF cfgStashed THEN StashAfterPop(popOk) ELSE stash
            /\ dirty' = IF cfgStashed THEN DirtyAfterPop(popOk) ELSE dirty
            /\ popLog' = IF cfgStashed THEN popLog \cup {PopEntry(popOk)} ELSE popLog
            /\ currentBranch' = IF cfgOriginal # NoBranch /\ currentBranch # cfgOriginal /\ coOk
                                THEN cfgOriginal ELSE currentBranch
            /\ cfgStashed' = ClearedStashed
            /\ cfgOriginal' = ClearedOriginal
            /\ ReturnEarly("ok", "aborted")
            /\ UNCHANGED <<parents, pr, remote, tracking, otherWorktrees, localBranches, configWritable>>
    /\ UNCHANGED <<planVars, iterVars, syncForce, originalBranch, stashed, rebaseConflict,
                   success, jobVars, pushed, prEdits, touched, session>>

\* variant: resume goes on without looking for a record
SyncResume_Unchecked(force) ==
    /\ pc = "idle"
    /\ mode' = "resume"
    /\ syncForce' = force
    /\ stashed' = TRUE
    /\ originalBranch' = cfgOriginal
    /\ pc' = "prompt"
    /\ UNCHANGED <<worldVars, result, errKind, planVars, iterVars, rebaseConflict, success,
                   jobVars, ghostVars>>

\* sync --resume, up to the registration of the defer
SyncResume(force) ==
    /\ pc = "idle"
    /\ mode' = "resume"
    /\ syncForce' = force
    /\ IF ~HasSavedState
       THEN /\ ReturnEarly("err", "no interrupted sync to resume")
            /\ UNCHANGED <<originalBranch, stashed>>
       ELSE /\ stashed' = TRUE
            /\ originalBranch' = cfgOriginal
            /\ pc' = "prompt"
            /\ UNCHANGED <<result, errKind>>
    /\ UNCHANGED <<worldVars, planVars, iterVars, rebaseConflict, success, jobVars, ghostVars>>

\* a fresh sync, up to the registration of the defer
SyncFresh(force, curOk, cleanOk, stashOk) ==
    LET st0 == IF HasSavedState THEN ClearedStashed ELSE cfgStashed
        orig0 == IF HasSavedState THEN ClearedOriginal ELSE cfgOriginal
        fail == IF ~curOk THEN "failed to get current branch"
                ELSE IF ~cleanOk THEN "failed to check working tree status"
                ELSE IF dirty /\ ~stashOk THEN "failed to stash changes"
                ELSE ""
        took == fail = "" /\ dirty
    IN  /\ pc = "idle"
        /\ took => Len(stash) < MaxStash
        /\ mode' = "fresh"
        /\ syncForce' = force
        /\ originalBranch' = IF curOk THEN currentBranch ELSE NoBranch
        /\ cfgOriginal' = IF curOk /\ configWritable THEN currentBranch ELSE orig0
        /\ stash' = IF took THEN Append(stash, currentBranch) ELSE stash
        /\ dirty' = IF took THEN FALSE ELSE dirty
        /\ stashed' = took
        /\ cfgStashed' = IF took /\ configWritable THEN TRUE ELSE st0
        /\ sessionStashed' = took
        /\ UNCHANGED followUp
        /\ IF fail = "" THEN pc' = "prompt" /\ UNCHANGED <<result, errKind>>
           ELSE ReturnEarly("err", fail)
        /\ UNCHANGED <<parents, currentBranch, rebaseInProgress, cherryPickInProgress, pr, remote,
                       tracking, otherWorktrees, localBranches, configWritable, planVars, iterVars,
                       rebaseConflict, success, jobVars, pushed, prEdits, touched, popLog>>

\* variant: the deferred function does not spare a rebase conflict
CleanupApplies_OnConflictToo == stashed /\ ~success

\* the condition under which the deferred function restores the stash
CleanupApplies == stashed /\ ~success /\ ~rebaseConflict

\* the deferred function: runs at every return after its registration
DeferredCleanup(popOk) ==
    /\ pc = "return"
    /\ pc' = "done"
    /\ IF CleanupApplies
       THEN /\ stash' = StashAfterPop(popOk)
            /\ dirty' = DirtyAfterPop(popOk)
            /\ popLog' = popLog \cup {PopEntry(popOk)}
            /\ cfgStashed' = ClearedStashed
            /\ cfgOriginal' = ClearedOriginal
       ELSE UNCHANGED <<stash, dirty, popLog, cfgStashed, cfgOriginal>>
    /\ UNCHANGED <<parents, currentBranch, rebaseInProgress, cherryPickInProgress, pr, remote,
                   tracking, otherWorktrees, localBranches, configWritable, result, errKind, planVars, iterVars,
                   flagVars, jobVars, pushed, prEdits, touched, session>>

\* the "not in a stack" prompt, then the launch of the two background jobs
AddToStackPrompt(answer) ==
    LET needs == ParentOf(originalBranch) = NoBranch /\ originalBranch # Base
        writes == needs /\ answer = "yes" /\ configWritable
    IN  /\ pc = "prompt"
        /\ parents' = IF writes THEN [parents EXCEPT ![originalBranch] = Base] ELSE parents
        /\ touched' = IF writes THEN touched \cup {originalBranch} ELSE touched
        /\ IF ~needs \/ writes
           THEN /\ pc' = "plan"
                /\ fetchJob' = "running"
                /\ prJob' = "running"
                /\ UNCHANGED <<result, errKind>>
           ELSE /\ UNCHANGED <<fetchJob, prJob>>
                /\ IF answer = "no" THEN Return("ok", "declined")
                   ELSE IF answer = "eof" THEN Return("err", "failed to read input")
                   ELSE Return("err", "failed to set parent")
        /\ UNCHANGED <<cfgStashed, cfgOriginal, currentBranch, dirty, stash, rebaseInProgress,
                       cherryPickInProgress, pr, remote, tracking, otherWorktrees, localBranches, configWritable,
                       planVars, iterVars, flagVars, prCache, remoteBranches, pushed, prEdits,
                       popLog, session>>

\* ------------------------------------------------------ the parallel prelude

JobsLive == pc \in {"plan", "worktree", "join"}
\* variant: the barrier does not wait
JobsDone_NoWait == TRUE

\* wg.Wait() returns: both goroutines have ended
JobsDone == fetchJob \in {"ok", "err"} /\ prJob \in {"ok", "err"}

\* goroutine 1: git fetch origin
FetchJob(ok, full) ==
    /\ JobsLive
    /\ fetchJob = "running"
    /\ fetchJob' = IF ok THEN "ok" ELSE "err"
    /\ tracking' = IF ok /\ full THEN tracking \cup remote ELSE tracking
    /\ UNCHANGED <<parents, cfgStashed, cfgOriginal, currentBranch, dirty, stash, rebaseInProgress,
                   cherryPickInProgress, pr, remote, otherWorktrees, localBranches, configWritable, pc, result,
                   errKind, planVars, iterVars, flagVars, prCache, prJob, remoteBranches, ghostVars>>

\* goroutine 2: GetAllPRs (a failed load leaves an empty cache)
PRJob(ok) ==
    /\ JobsLive
    /\ prJob = "running"
    /\ prJob' = IF ok THEN "ok" ELSE "err"
    /\ prCache' = IF ok THEN [b \in AllBranches |-> IF b \in DOMAIN pr THEN pr[b] ELSE NoPR]
                  ELSE EmptyCache
    /\ UNCHANGED <<worldVars, pc, result, errKind, planVars, iterVars, flagVars, fetchJob,
                   remoteBranches, ghostVars>>

\* variant: every stack branch is processed, on the chain or not
InChain_Unfiltered(c) == GetStackBranches(parents)

\* the stack branches that are on the chain of the current branch
InChain(c) == {b \in GetStackBranches(parents) : b.Name \in Range(c)}

\* chain, filter and topological sort, done while the jobs run
BuildPlan ==
    LET c == GetStackChain(parents, originalBranch)
        inChain == InChain(c.chain)
    IN  /\ pc = "plan"
        /\ IF c.err THEN Return("err", "failed to get stack chain") /\ UNCHANGED planVars
           ELSE IF c.chain = <<>>
           THEN JobsDone /\ Return("ok", "empty") /\ UNCHANGED planVars
           ELSE \E order \in Orderings(inChain) :
                  LET t == TopologicalSort(order)
                  IN  IF t.err THEN Return("err", "failed to sort branches") /\ UNCHANGED planVars
                      ELSE /\ chain' = c.chain
                           /\ stackBranchSet' = {b.Name : b \in inChain}
                           /\ sorted' = t.sorted
                           /\ pc' = "worktree"
                           /\ UNCHANGED <<result, errKind>>
        /\ UNCHANGED <<worldVars, iterVars, flagVars, jobVars, ghostVars>>

\* variant: the worktree list is read and the sync goes on whatever it holds
WorktreeCheck_Skipped(listOk, pathOk) ==
    /\ pc = "worktree"
    /\ pc' = "join"
    /\ lastCmd' = Cmd("worktree list", NoBranch, "", listOk)
    /\ UNCHANGED <<worldVars, result, errKind, planVars, idx, branchParent, oldParent,
                   branchExistsOnRemote, iterPushed, flagVars, jobVars, ghostVars>>

\* refuse when a branch to process is checked out in another worktree
WorktreeCheck(listOk, pathOk) ==
    /\ pc = "worktree"
    /\ IF listOk /\ \E i \in 1..Len(sorted) :
                      \/ sorted[i].Name \in otherWorktrees
                      \/ sorted[i].Name = currentBranch /\ ~pathOk
       THEN Return("err", "cannot sync: branch is checked out in worktree")
       ELSE pc' = "join" /\ UNCHANGED <<result, errKind>>
    /\ lastCmd' = Cmd("worktree list", NoBranch, "", listOk)
    /\ UNCHANGED <<worldVars, planVars, idx, branchParent, oldParent, branchExistsOnRemote,
                   iterPushed, flagVars, jobVars, ghostVars>>

\* wg.Wait(), the fetch status, the snapshot of the remote-tracking refs
Join ==
    /\ pc = "join"
    /\ JobsDone
    /\ IF fetchJob = "err"
       THEN Return("err", "failed to fetch") /\ UNCHANGED <<remoteBranches, idx>>
       ELSE /\ remoteBranches' = tracking
            /\ idx' = 1
            /\ pc' = "loop"
            /\ UNCHANGED <<result, errKind>>
    /\ UNCHANGED <<worldVars, planVars, branchParent, oldParent, branchExistsOnRemote, lastCmd, iterPushed,
                   flagVars, prCache, fetchJob, prJob, ghostVars>>

\* ---------------------------------------------------- the per-branch loop

Cur == sorted[idx]

\* variant: no PR is ever seen as merged
IsMerged_Never(name) == FALSE

\* the PR cache holds a merged PR for the branch
IsMerged(name) == name \in DOMAIN prCache /\ prCache[name].State = "MERGED"

\* the head of an iteration: skip a merged branch, collapse a merged parent
LoopHead ==
    /\ pc = "loop"
    /\ IF idx > Len(sorted)
       THEN /\ pc' = "finish"
            /\ UNCHANGED <<parents, touched, idx, branchParent, oldParent>>
       ELSE IF IsMerged(Cur.Name)
       THEN /\ parents' = IF configWritable THEN [parents EXCEPT ![Cur.Name] = NoBranch] ELSE parents
            /\ touched' = touched \cup {Cur.Name}
            /\ idx' = idx + 1
            /\ pc' = "loop"
            /\ UNCHANGED <<branchParent, oldParent>>
       ELSE IF IsMerged(Cur.Parent)
       THEN LET grandparent == IF ParentOf(Cur.Parent) = NoBranch THEN Base ELSE ParentOf(Cur.Parent)
            IN  /\ oldParent' = Cur.Parent
                /\ parents' = IF configWritable THEN [parents EXCEPT ![Cur.Name] = grandparent] ELSE parents
                /\ branchParent' = IF configWritable THEN grandparent ELSE Cur.Parent
                /\ touched' = touched \cup {Cur.Name}
                /\ pc' = "checkout"
                /\ UNCHANGED idx
       ELSE /\ oldParent' = NoBranch
            /\ branchParent' = Cur.Parent
            /\ pc' = "checkout"
            /\ UNCHANGED <<parents, touched, idx>>
    /\ lastCmd' = NoCmd
    /\ iterPushed' = FALSE
    /\ UNCHANGED <<cfgStashed, cfgOriginal, currentBranch, dirty, stash, rebaseInProgress,
                   cherryPickInProgress, pr, remote, tracking, otherWorktrees, localBranches, configWritable,
                   result, errKind, planVars, branchExistsOnRemote, flagVars, jobVars, pushed,
                   prEdits, popLog, session>>

Checkout(ok) ==
    /\ pc = "checkout"
    /\ ok => Cur.Name \in localBranches
    /\ IF ok
       THEN /\ currentBranch' = Cur.Name
            /\ touched' = touched \cup {Cur.Name}
            /\ lastCmd' = Cmd("checkout", Cur.Name, "", TRUE)
            /\ pc' = "reconcile"
            /\ UNCHANGED <<result, errKind>>
       ELSE /\ Return("err", "failed to checkout")
            /\ lastCmd' = Cmd("checkout", Cur.Name, "", FALSE)
            /\ UNCHANGED <<currentBranch, touched>>
    /\ UNCHANGED <<parents, cfgStashed, cfgOriginal, dirty, stash, rebaseInProgress,
                   cherryPickInProgress, pr, remote, tracking, otherWorktrees, localBranches, configWritable,
                   planVars, idx, branchParent, oldParent, branchExistsOnRemote, iterPushed,
                   flagVars, jobVars, pushed, prEdits, popLog, session>>

\* what the three reads of the divergence check can answer
Relations == {"same", "ahead", "behind", "diverged"}

\* the commits the hash reads and the merge-base read can answer
MaxSha == 3
Shas == 1..MaxSha

\* variant: the two merge-base comparisons are taken the other way round
Relation_Swapped(localHash, remoteHash, mergeBase) ==
    IF localHash = remoteHash THEN "same"
    ELSE IF mergeBase = localHash THEN "ahead"
    ELSE IF mergeBase = remoteHash THEN "behind"
    ELSE "diverged"

\* how the local branch stands to origin/<branch>, from the two hashes and
\* their merge-base
Relation(localHash, remoteHash, mergeBase) ==
    IF localHash = remoteHash THEN "same"
    ELSE IF mergeBase = remoteHash THEN "ahead"
    ELSE IF mergeBase = localHash THEN "behind"
    ELSE "diverged"

\* the outcome of the comparison once its reads succeeded: the relation, or
\* the failure of the reset that a branch behind origin is given
ReconcileAnswer(localHash, remoteHash, mergeBase, resetOk) ==
    LET rel == Relation(localHash, remoteHash, mergeBase)
    IN  IF rel = "behind" /\ ~resetOk THEN "reset error" ELSE rel

ReconcileAnswers ==
    {ReconcileAnswer(l, r, mb, resetOk) : l \in Shas, r \in Shas, mb \in Shas, resetOk \in BOOLEAN}
       \cup {"hash error", "merge-base error"}

\* does the branch exist on origin; fast-forward when local is behind
Reconcile(fetchOk, answer) ==
    LET hasLocalRef == Cur.Name \in remoteBranches
        claimed == hasLocalRef \/ prCache[Cur.Name] # NoPR
        fetched == claimed /\ ~hasLocalRef /\ fetchOk /\ Cur.Name \in remote
        exists == claimed /\ (hasLocalRef \/ fetched)
        compares == exists /\ ~syncForce
        fail == IF ~compares THEN ""
                ELSE IF answer = "hash error" THEN "failed to get commit hash"
                ELSE IF answer = "merge-base error" THEN "failed to get merge base"
                ELSE IF answer = "reset error" THEN "failed to fast-forward"
                ELSE ""
    IN  /\ pc = "reconcile"
        /\ tracking' = IF fetched THEN tracking \cup {Cur.Name} ELSE tracking
        /\ branchExistsOnRemote' = exists
        /\ lastCmd' = IF compares /\ answer \in {"behind", "reset error"}
                      THEN Cmd("reset", Cur.Name, "origin", answer = "behind") ELSE lastCmd
        /\ IF fail = "" THEN pc' = "rebase" /\ UNCHANGED <<result, errKind>>
           ELSE Return("err", fail)
        /\ UNCHANGED <<parents, cfgStashed, cfgOriginal, currentBranch, dirty, stash,
                       rebaseInProgress, cherryPickInProgress, pr, remote, otherWorktrees, localBranches,
                       configWritable, planVars, idx, branchParent, oldParent, iterPushed, flagVars,
                       jobVars, ghostVars>>

\* variant: the local ref of the parent, whatever the parent is
RebaseTarget_AlwaysLocal == [ref |-> branchParent, origin |-> FALSE]

\* origin/<parent> for a parent that is no stack branch, the local ref otherwise
RebaseTarget == IF branchParent \in stackBranchSet
                THEN [ref |-> branchParent, origin |-> FALSE]
                ELSE [ref |-> branchParent, origin |-> TRUE]

\* the three reads of the closure (patch-unique commits, merge-base, commit
\* count): all succeed, or one of them fails
ReadOutcomes == {<<TRUE, TRUE, TRUE>>, <<FALSE, TRUE, TRUE>>, <<TRUE, FALSE, TRUE>>, <<TRUE, TRUE, FALSE>>}

\* <<patch-unique commits, commits since the merge-base>>; a failed read
\* returns no commits
CommitCounts(reads) ==
    IF ~reads[1] THEN {<<0, 0>>}
    ELSE IF ~reads[3] THEN {<<u, 0>> : u \in 0..MaxUnique}
    ELSE {<<u, n>> : u \in 0..MaxUnique, n \in 0..MaxAll} \ {<<u, n>> \in (0..MaxUnique) \X (0..MaxAll) : n < u}

\* variant: the commit count is never compared with the patch-unique count
RebaseDecision_NoGuard(old, uniqOk, nUnique, mbOk, mbIsTarget, allOk, nAll) ==
    IF old # NoBranch THEN "onto old parent"
    ELSE IF ~uniqOk THEN "plain"
    ELSE IF nUnique = 0 THEN "skip"
    ELSE IF ~mbOk THEN "plain"
    ELSE IF mbIsTarget THEN "plain"
    ELSE "onto merge-base"

\* variant: a commit count of exactly twice the patch-unique count is rejected
RebaseDecision_AtTwice(old, uniqOk, nUnique, mbOk, mbIsTarget, allOk, nAll) ==
    IF old # NoBranch THEN "onto old parent"
    ELSE IF ~uniqOk THEN "plain"
    ELSE IF nUnique = 0 THEN "skip"
    ELSE IF ~mbOk THEN "plain"
    ELSE IF mbIsTarget THEN "plain"
    ELSE IF allOk /\ nAll >= nUnique * 2 THEN "polluted"
    ELSE "onto merge-base"

\* which rebase the closure issues, from what its reads answered
RebaseDecision(old, uniqOk, nUnique, mbOk, mbIsTarget, allOk, nAll) ==
    IF old # NoBranch THEN "onto old parent"
    ELSE IF ~uniqOk THEN "plain"
    ELSE IF nUnique = 0 THEN "skip"
    ELSE IF ~mbOk THEN "plain"
    ELSE IF mbIsTarget THEN "plain"
    ELSE IF allOk /\ nAll > nUnique * 2 THEN "polluted"
    ELSE "onto merge-base"

Rebase(uniqOk, nUnique, mbOk, mbIsTarget, allOk, nAll, cmdOk) ==
    LET kind == RebaseDecision(oldParent, uniqOk, nUnique, mbOk, mbIsTarget, allOk, nAll)
        runs == kind \in {"onto old parent", "plain", "onto merge-base"}
        failed == kind = "polluted" \/ (runs /\ ~cmdOk)
    IN  /\ pc = "rebase"
        /\ lastCmd' = Cmd(IF runs THEN "rebase" ELSE "no rebase", Cur.Name, kind, ~failed)
        /\ rebaseInProgress' = IF runs /\ ~cmdOk THEN TRUE ELSE rebaseInProgress
        /\ rebaseConflict' = IF failed THEN TRUE ELSE rebaseConflict
        /\ IF failed THEN Return("err", "failed to rebase")
           ELSE pc' = "push" /\ UNCHANGED <<result, errKind>>
        /\ UNCHANGED <<parents, cfgStashed, cfgOriginal, currentBranch, dirty, stash,
                       cherryPickInProgress, pr, remote, tracking, otherWorktrees, localBranches, configWritable,
                       planVars, idx, branchParent, oldParent, branchExistsOnRemote, iterPushed,
                       mode, syncForce, originalBranch, stashed, success, jobVars, ghostVars>>

\* variant: every push is the unconditional force push
PushKind_AlwaysForce(force, fetched, shaOk) == "force"

\* which push is issued
PushKind(force, fetched, shaOk) ==
    IF force THEN "force"
    ELSE IF ~fetched THEN "force-with-lease"
    ELSE IF ~shaOk THEN "force-with-lease"
    ELSE "force-with-lease=sha"

\* variant: every branch of the plan is pushed
PushNeeded_Always == TRUE

\* variant: the push step is skipped for every branch
PushNeeded_Never == FALSE

\* only a branch found on origin is pushed
PushNeeded == branchExistsOnRemote

Push(fetchOk, shaOk, pushOk) ==
    LET fetched == ~syncForce /\ fetchOk /\ Cur.Name \in remote
        read == fetched /\ shaOk
        kind == PushKind(syncForce, fetched, read)
        done == pushOk /\ (syncForce \/ Cur.Name \in remote)
    IN  /\ pc = "push"
        /\ IF ~PushNeeded
           THEN /\ pc' = "prbase"
                /\ lastCmd' = Cmd("no push", Cur.Name, "", TRUE)
                /\ UNCHANGED <<remote, tracking, pushed, iterPushed, result, errKind>>
           ELSE /\ lastCmd' = Cmd("push", Cur.Name, kind, done)
                /\ iterPushed' = done
                /\ tracking' = IF fetched THEN tracking \cup {Cur.Name} ELSE tracking
                /\ remote' = IF done THEN remote \cup {Cur.Name} ELSE remote
                /\ pushed' = IF done THEN Append(pushed, Cur.Name) ELSE pushed
                /\ IF done THEN pc' = "prbase" /\ UNCHANGED <<result, errKind>>
                   ELSE Return("err", "push failed")
        /\ UNCHANGED <<parents, cfgStashed, cfgOriginal, currentBranch, dirty, stash,
                       rebaseInProgress, cherryPickInProgress, pr, otherWorktrees, localBranches, configWritable,
                       planVars, idx, branchParent, oldParent, branchExistsOnRemote, flagVars,
                       jobVars, prEdits, touched, popLog, session>>

\* variant: a failed edit of the PR's base ends the sync
UpdatePR_Fatal(ok) ==
    LET cached == prCache[Cur.Name]
        edits == cached # NoPR /\ cached.Base # branchParent
        lands == edits /\ ok /\ branchParent \in remote
    IN  /\ pc = "prbase"
        /\ prEdits' = IF edits THEN prEdits \cup {<<Cur.Name, branchParent>>} ELSE prEdits
        /\ lastCmd' = IF edits THEN Cmd("prbase", Cur.Name, branchParent, lands)
                      ELSE Cmd("no prbase", Cur.Name, "", TRUE)
        /\ pr' = IF lands THEN [pr EXCEPT ![Cur.Name].Base = branchParent] ELSE pr
        /\ idx' = idx + 1
        /\ IF edits /\ ~lands THEN Return("err", "failed to update PR base")
           ELSE pc' = "loop" /\ UNCHANGED <<result, errKind>>
        /\ UNCHANGED <<parents, cfgStashed, cfgOriginal, currentBranch, dirty, stash,
                       rebaseInProgress, cherryPickInProgress, remote, tracking, otherWorktrees, localBranches,
                       configWritable, planVars, branchParent, oldParent,
                       branchExistsOnRemote, iterPushed, flagVars, jobVars, pushed, touched, popLog,
                       session>>

\* update the PR's base when it differs from the branch's parent
UpdatePR(ok) ==
    LET cached == prCache[Cur.Name]
        edits == cached # NoPR /\ cached.Base # branchParent
        lands == edits /\ ok /\ branchParent \in remote
    IN  /\ pc = "prbase"
        /\ prEdits' = IF edits THEN prEdits \cup {<<Cur.Name, branchParent>>} ELSE prEdits
        /\ lastCmd' = IF edits THEN Cmd("prbase", Cur.Name, branchParent, lands)
                      ELSE Cmd("no prbase", Cur.Name, "", TRUE)
        /\ pr' = IF lands THEN [pr EXCEPT ![Cur.Name].Base = branchParent] ELSE pr
        /\ idx' = idx + 1
        /\ pc' = "loop"
        /\ UNCHANGED <<parents, cfgStashed, cfgOriginal, currentBranch, dirty, stash,
                       rebaseInProgress, cherryPickInProgress, remote, tracking, otherWorktrees, localBranches,
                       configWritable, result, errKind, planVars, branchParent, oldParent,
                       branchExistsOnRemote, iterPushed, flagVars, jobVars, pushed, touched, popLog,
                       session>>

\* after the loop: back to the original branch, pop the stash, clear the record
Finish(coOk, popOk) ==
    /\ pc = "finish"
    /\ currentBranch' = IF coOk THEN originalBranch ELSE currentBranch
    /\ touched' = IF coOk THEN touched \cup {originalBranch} ELSE touched
    /\ success' = TRUE
    /\ lastCmd' = Cmd("checkout", originalBranch, "", coOk)
    /\ stash' = IF stashed THEN StashAfterPop(popOk) ELSE stash
    /\ dirty' = IF stashed THEN DirtyAfterPop(popOk) ELSE dirty
    /\ popLog' = IF stashed THEN popLog \cup {PopEntry(popOk)} ELSE popLog
    /\ cfgStashed' = ClearedStashed
    /\ cfgOriginal' = ClearedOriginal
    /\ Return("ok", "complete")
    /\ UNCHANGED <<parents, rebaseInProgress, cherryPickInProgress, pr, remote, tracking,
                   otherWorktrees, localBranches, configWritable, planVars, idx, branchParent, oldParent,
                   branchExistsOnRemote, iterPushed, mode, syncForce,
                   originalBranch, stashed, rebaseConflict, jobVars, pushed, prEdits,
                   session>>

\* the interrupted syncs that are followed into a second invocation: a plain
\* sync that stopped at a rebase before it had pushed or edited anything
Interrupted ==
    /\ rebaseConflict /\ ~syncForce
    /\ prJob = "ok" /\ remoteBranches = remote
    /\ pushed = <<>> /\ prEdits = {}

\* the process has ended; the repository stays as it was left for the
\* invocation that follows
Exit ==
    /\ pc = "done"
    /\ ~followUp
    /\ Interrupted
    /\ followUp' = TRUE
    /\ pc' = "idle" /\ mode' = "none" /\ syncForce' = FALSE /\ originalBranch' = NoBranch
    /\ stashed' = FALSE /\ rebaseConflict' = FALSE /\ success' = FALSE
    /\ chain' = <<>> /\ stackBranchSet' = {} /\ sorted' = <<>> /\ idx' = 0
    /\ branchParent' = NoBranch /\ oldParent' = NoBranch /\ prCache' = EmptyCache
    /\ fetchJob' = "idle" /\ prJob' = "idle" /\ remoteBranches' = {}
    /\ branchExistsOnRemote' = FALSE
    /\ result' = "none" /\ errKind' = "" /\ pushed' = <<>> /\ prEdits' = {}
    /\ touched' = {} /\ popLog' = {} /\ lastCmd' = NoCmd /\ iterPushed' = FALSE
    /\ UNCHANGED <<worldVars, sessionStashed>>

\* ------------------------------------------------------------ the user

\* git rebase --continue after resolving the conflict
UserContinuesRebase ==
    /\ pc = "idle"
    /\ rebaseInProgress
    /\ rebaseInProgress' = FALSE
    /\ UNCHANGED <<parents, cfgStashed, cfgOriginal, currentBranch, dirty, stash,
                   cherryPickInProgress, pr, remote, tracking, otherWorktrees, localBranches, configWritable,
                   pc, result, errKind, planVars, iterVars, flagVars, jobVars, ghostVars>>

\* a cherry-pick the user started on the base branch stops with a conflict
UserCherryPick ==
    /\ pc = "idle"
    /\ currentBranch = Base /\ ~dirty /\ ~cherryPickInProgress /\ ~rebaseInProgress
    /\ cherryPickInProgress' = TRUE
    /\ UNCHANGED <<parents, cfgStashed, cfgOriginal, currentBranch, dirty, stash,
                   rebaseInProgress, pr, remote, tracking, otherWorktrees, localBranches, configWritable,
                   pc, result, errKind, planVars, iterVars, flagVars, jobVars, ghostVars>>

\* ------------------------------------------------------------------- Next

Next ==
    \/ \E cpOk, rbOk, popOk, coOk \in BOOLEAN : SyncAbort(cpOk, rbOk, popOk, coOk)
    \/ \E force \in BOOLEAN : SyncResume(force)
    \/ \E force, curOk, cleanOk, stashOk \in BOOLEAN : SyncFresh(force, curOk, cleanOk, stashOk)
    \/ \E popOk \in BOOLEAN : DeferredCleanup(popOk)
    \/ \E answer \in {"yes", "no", "eof"} : AddToStackPrompt(answer)
    \/ \E ok, full \in BOOLEAN : FetchJob(ok, full)
    \/ \E ok \in BOOLEAN : PRJob(ok)
    \/ BuildPlan
    \/ \E listOk, pathOk \in BOOLEAN : WorktreeCheck(listOk, pathOk)
    \/ Join
    \/ LoopHead
    \/ \E ok \in BOOLEAN : Checkout(ok)
    \/ \E fetchOk \in BOOLEAN, answer \in ReconcileAnswers : Reconcile(fetchOk, answer)
    \/ \E reads \in ReadOutcomes, mbIsTarget, cmdOk \in BOOLEAN :
          \E counts \in CommitCounts(reads) :
             Rebase(reads[1], counts[1], reads[2], mbIsTarget, reads[3], counts[2], cmdOk)
    \/ \E fetchOk, shaOk, pushOk \in BOOLEAN : Push(fetchOk, shaOk, pushOk)
    \/ \E ok \in BOOLEAN : UpdatePR(ok)
    \/ \E coOk, popOk \in BOOLEAN : Finish(coOk, popOk)
    \/ Exit
    \/ UserContinuesRebase
    \/ UserCherryPick

Spec == Init /\ [][Next]_vars

\* ------------------------------------------- two syncs back to back

\* the process has ended after a complete sync; the next one starts on the
\* repository as it was left
ExitAfterSuccess ==
    /\ pc = "done"
    /\ ~followUp
    /\ mode = "fresh" /\ result = "ok" /\ errKind = "complete"
    /\ followUp' = TRUE
    /\ pc' = "idle" /\ mode' = "none" /\ syncForce' = FALSE /\ originalBranch' = NoBranch
    /\ stashed' = FALSE /\ rebaseConflict' = FALSE /\ success' = FALSE
    /\ chain' = <<>> /\ stackBranchSet' = {} /\ sorted' = <<>> /\ idx' = 0
    /\ branchParent' = NoBranch /\ oldParent' = NoBranch /\ prCache' = EmptyCache
    /\ fetchJob' = "idle" /\ prJob' = "idle" /\ remoteBranches' = {}
    /\ branchExistsOnRemote' = FALSE
    /\ result' = "none" /\ errKind' = "" /\ pushed' = <<>> /\ prEdits' = {}
    /\ touched' = {} /\ popLog' = {} /\ lastCmd' = NoCmd /\ iterPushed' = FALSE
    /\ UNCHANGED <<worldVars, sessionStashed>>

\* what git answers about a branch that the sync before has just reconciled,
\* rebased and pushed: local and remote agree, the branch sits on its target
SettledRelations == IF followUp THEN {"same"} ELSE Relations
SettledOnTarget == IF followUp THEN {TRUE} ELSE BOOLEAN

\* a sync and the sync run right after it, every command succeeding and
\* nothing else touching the repository, the remote or the review service
NextTwice ==
    \/ \E force \in BOOLEAN : SyncFresh(force, TRUE, TRUE, TRUE)
    \/ DeferredCleanup(TRUE)
    \/ \E answer \in {"yes", "no"} : AddToStackPrompt(answer)
    \/ \E full \in BOOLEAN : FetchJob(TRUE, full)
    \/ PRJob(TRUE)
    \/ BuildPlan
    \/ WorktreeCheck(TRUE, TRUE)
    \/ Join
    \/ LoopHead
    \/ Checkout(TRUE)
    \/ \E answer \in SettledRelations : Reconcile(TRUE, answer)
    \/ \E mbIsTarget \in SettledOnTarget : \E counts \in CommitCounts(<<TRUE, TRUE, TRUE>>) :
          Rebase(TRUE, counts[1], TRUE, mbIsTarget, TRUE, counts[2], TRUE)
    \/ Push(TRUE, TRUE, TRUE)
    \/ UpdatePR(TRUE)
    \/ Finish(TRUE, TRUE)
    \/ ExitAfterSuccess

SpecTwice == Init /\ [][NextTwice]_vars

\* ------------------------------------- fresh sync over a stale record

\* the question a fresh sync asks when it finds a record: on yes the record
\* is cleared and the fresh start goes on, on no the sync ends at once
StaleRecordPrompt(answer) ==
    /\ pc = "idle"
    /\ HasSavedState
    /\ IF answer = "yes"
       THEN /\ cfgStashed' = ClearedStashed
            /\ cfgOriginal' = ClearedOriginal
            /\ UNCHANGED <<pc, result, errKind, mode>>
       ELSE /\ mode' = "fresh"
            /\ ReturnEarly("ok", "stale state kept")
            /\ UNCHANGED <<cfgStashed, cfgOriginal>>
    /\ UNCHANGED <<parents, currentBranch, dirty, stash, rebaseInProgress, cherryPickInProgress,
                   pr, remote, tracking, otherWorktrees, localBranches, configWritable, planVars,
                   iterVars, syncForce, originalBranch, stashed, rebaseConflict, success,
                   jobVars, ghostVars>>

\* the fresh start once no record is left to ask about
SyncFreshAsked(force, curOk, cleanOk, stashOk) ==
    /\ ~HasSavedState
    /\ SyncFresh(force, curOk, cleanOk, stashOk)

\* Next with the question asked before a fresh start
NextAsks ==
    \/ \E answer \in {"yes", "no"} : StaleRecordPrompt(answer)
    \/ \E force, curOk, cleanOk, stashOk \in BOOLEAN : SyncFreshAsked(force, curOk, cleanOk, stashOk)
    \/ \E cpOk, rbOk, popOk, coOk \in BOOLEAN : SyncAbort(cpOk, rbOk, popOk, coOk)
    \/ \E force \in BOOLEAN : SyncResume(force)
    \/ \E popOk \in BOOLEAN : DeferredCleanup(popOk)
    \/ \E answer \in {"yes", "no", "eof"} : AddToStackPrompt(answer)
    \/ \E ok, full \in BOOLEAN : FetchJob(ok, full)
    \/ \E ok \in BOOLEAN : PRJob(ok)
    \/ BuildPlan
    \/ \E listOk, pathOk \in BOOLEAN : WorktreeCheck(listOk, pathOk)
    \/ Join
    \/ LoopHead
    \/ \E ok \in BOOLEAN : Checkout(ok)
    \/ \E fetchOk \in BOOLEAN, answer \in ReconcileAnswers : Reconcile(fetchOk, answer)
    \/ \E reads \in ReadOutcomes, mbIsTarget, cmdOk \in BOOLEAN :
          \E counts \in CommitCounts(reads) :
             Rebase(reads[1], counts[1], reads[2], mbIsTarget, reads[3], counts[2], cmdOk)
    \/ \E fetchOk, shaOk, pushOk \in BOOLEAN : Push(fetchOk, shaOk, pushOk)
    \/ \E ok \in BOOLEAN : UpdatePR(ok)
    \/ \E coOk, popOk \in BOOLEAN : Finish(coOk, popOk)
    \/ Exit
    \/ UserContinuesRebase
    \/ UserCherryPick

SpecAsks == Init /\ [][NextAsks]_vars

\* ---------------------------------------------------------------------
\* sync over a chain whose root branch has no parent edge
\* ---------------------------------------------------------------------

\* the edges once the root of the chain to the original branch is given the
\* base branch as parent: only a root that is not the base branch and that
\* exists locally is configured
AutoConfigured(par, local, branch) ==
    LET c == GetStackChain(par, branch)
    IN  IF ~c.err /\ c.chain # <<>> /\ c.chain[1] # Base /\ c.chain[1] \in local
        THEN [par EXCEPT ![c.chain[1]] = Base]
        ELSE par

\* the plan, built after the root of the chain has been configured
BuildPlanAuto ==
    LET par == AutoConfigured(parents, localBranches, originalBranch)
        c == GetStackChain(par, originalBranch)
        inChain == {b \in GetStackBranches(par) : b.Name \in Range(c.chain)}
    IN  /\ pc = "plan"
        /\ parents' = par
        /\ IF c.err THEN Return("err", "failed to get stack chain") /\ UNCHANGED planVars
           ELSE IF c.chain = <<>>
           THEN JobsDone /\ Return("ok", "empty") /\ UNCHANGED planVars
           ELSE \E order \in Orderings(inChain) :
                  LET t == TopologicalSort(order)
                  IN  IF t.err THEN Return("err", "failed to sort branches") /\ UNCHANGED planVars
                      ELSE /\ chain' = c.chain
                           /\ stackBranchSet' = {b.Name : b \in inChain}
                           /\ sorted' = t.sorted
                           /\ pc' = "worktree"
                           /\ UNCHANGED <<result, errKind>>
        /\ UNCHANGED <<cfgStashed, cfgOriginal, currentBranch, dirty, stash, rebaseInProgress,
                       cherryPickInProgress, pr, remote, tracking, otherWorktrees,
                       localBranches, configWritable, iterVars, flagVars, jobVars, ghostVars>>

\* a repository whose stack hangs off a branch that was never given a parent:
\* b on a, c on b or beside it, a with no edge
InitAuto ==
    /\ cfgStashed = FALSE /\ cfgOriginal = NoBranch
    /\ dirty \in BOOLEAN
    /\ stash = <<>>
    /\ rebaseInProgress = FALSE /\ cherryPickInProgress = FALSE
    /\ tracking = {Base}
    /\ \/ /\ currentBranch \in {"b", "c"}
          /\ parents \in { EdgeMap(NoBranch, "a", "b"), EdgeMap(NoBranch, "a", "a"),
                           EdgeMap(NoBranch, "a", NoBranch) }
          /\ pr \in InitPRs
       \/ /\ currentBranch = Base
          /\ parents = EdgeMap(NoBranch, "a", "b")
          /\ pr = [b \in Branches |-> NoPR]
    /\ remote = AllBranches /\ otherWorktrees = {}
    /\ localBranches = AllBranches /\ configWritable = TRUE
    /\ LocalsIdle /\ sessionStashed = FALSE /\ followUp = FALSE

\* Next with the plan built after the root of the chain is configured
NextAuto ==
    \/ BuildPlanAuto
    \/ \E cpOk, rbOk, popOk, coOk \in BOOLEAN : SyncAbort(cpOk, rbOk, popOk, coOk)
    \/ \E force \in BOOLEAN : SyncResume(force)
    \/ \E force, curOk, cleanOk, stashOk \in BOOLEAN : SyncFresh(force, curOk, cleanOk, stashOk)
    \/ \E popOk \in BOOLEAN : DeferredCleanup(popOk)
    \/ \E answer \in {"yes", "no", "eof"} : AddToStackPrompt(answer)
    \/ \E ok, full \in BOOLEAN : FetchJob(ok, full)
    \/ \E ok \in BOOLEAN : PRJob(ok)
    \/ \E listOk, pathOk \in BOOLEAN : WorktreeCheck(listOk, pathOk)
    \/ Join
    \/ LoopHead
    \/ \E ok \in BOOLEAN : Checkout(ok)
    \/ \E fetchOk \in BOOLEAN, answer \in ReconcileAnswers : Reconcile(fetchOk, answer)
    \/ \E reads \in ReadOutcomes, mbIsTarget, cmdOk \in BOOLEAN :
          \E counts \in CommitCounts(reads) :
             Rebase(reads[1], counts[1], reads[2], mbIsTarget, reads[3], counts[2], cmdOk)
    \/ \E fetchOk, shaOk, pushOk \in BOOLEAN : Push(fetchOk, shaOk, pushOk)
    \/ \E ok \in BOOLEAN : UpdatePR(ok)
    \/ \E coOk, popOk \in BOOLEAN : Finish(coOk, popOk)
    \/ Exit
    \/ UserContinuesRebase
    \/ UserCherryPick

SpecAuto == InitAuto /\ [][NextAuto]_vars

\* ---------------------------------------------------------------------
\* sync over a config store that may refuse every write
\* ---------------------------------------------------------------------

InitFaults ==
    /\ InitWorld /\ localBranches = AllBranches /\ configWritable \in BOOLEAN
    /\ LocalsIdle /\ sessionStashed = FALSE /\ followUp = FALSE

SpecFaults == InitFaults /\ [][Next]_vars

\* ---------------------------------------------------------------------
\* sync over a bulk PR load that lists open PRs only
\* ---------------------------------------------------------------------

\* the bulk load: the open PRs, and nothing for a branch whose PR is merged
PRJobOpen(ok) ==
    /\ JobsLive
    /\ prJob = "running"
    /\ prJob' = IF ok THEN "ok" ELSE "err"
    /\ prCache' = IF ok THEN [b \in AllBranches |->
                                 IF b \in DOMAIN pr /\ pr[b].State = "OPEN" THEN pr[b] ELSE NoPR]
                  ELSE EmptyCache
    /\ UNCHANGED <<worldVars, pc, result, errKind, planVars, iterVars, flagVars, fetchJob,
                   remoteBranches, ghostVars>>

\* the cache after the PR of a branch it does not hold was queried
Queried(cache, name) ==
    IF name \in DOMAIN pr /\ cache[name] = NoPR THEN [cache EXCEPT ![name] = pr[name]] ELSE cache

\* the head of an iteration, with the branch and its parent queried first
LoopHeadAsks ==
    /\ pc = "loop"
    /\ IF idx > Len(sorted)
       THEN /\ pc' = "finish"
            /\ UNCHANGED <<parents, touched, idx, branchParent, oldParent, prCache>>
       ELSE LET seen == Queried(Queried(prCache, Cur.Name), Cur.Parent)
            IN  /\ prCache' = seen
                /\ IF seen[Cur.Name].State = "MERGED"
                   THEN /\ parents' = IF configWritable THEN [parents EXCEPT ![Cur.Name] = NoBranch]
                                      ELSE parents
                        /\ touched' = touched \cup {Cur.Name}
                        /\ idx' = idx + 1
                        /\ pc' = "loop"
                        /\ UNCHANGED <<branchParent, oldParent>>
                   ELSE IF seen[Cur.Parent].State = "MERGED"
                   THEN LET grandparent == IF ParentOf(Cur.Parent) = NoBranch THEN Base
                                           ELSE ParentOf(Cur.Parent)
                        IN  /\ oldParent' = Cur.Parent
                            /\ parents' = IF configWritable
                                          THEN [parents EXCEPT ![Cur.Name] = grandparent]
                                          ELSE parents
                            /\ branchParent' = IF configWritable THEN grandparent ELSE Cur.Parent
                            /\ touched' = touched \cup {Cur.Name}
                            /\ pc' = "checkout"
                            /\ UNCHANGED idx
                   ELSE /\ oldParent' = NoBranch
                        /\ branchParent' = Cur.Parent
                        /\ pc' = "checkout"
                        /\ UNCHANGED <<parents, touched, idx>>
    /\ lastCmd' = NoCmd
    /\ iterPushed' = FALSE
    /\ UNCHANGED <<cfgStashed, cfgOriginal, currentBranch, dirty, stash, rebaseInProgress,
                   cherryPickInProgress, pr, remote, tracking, otherWorktrees, localBranches,
                   configWritable, result, errKind, planVars, branchExistsOnRemote, flagVars,
                   fetchJob, prJob, remoteBranches, pushed, prEdits, popLog, session>>

\* Next with the open-only bulk load and the per-branch queries
NextQueries ==
    \/ \E ok \in BOOLEAN : PRJobOpen(ok)
    \/ LoopHeadAsks
    \/ \E cpOk, rbOk, popOk, coOk \in BOOLEAN : SyncAbort(cpOk, rbOk, popOk, coOk)
    \/ \E force \in BOOLEAN : SyncResume(force)
    \/ \E force, curOk, cleanOk, stashOk \in BOOLEAN : SyncFresh(force, curOk, cleanOk, stashOk)
    \/ \E popOk \in BOOLEAN : DeferredCleanup(popOk)
    \/ \E answer \in {"yes", "no", "eof"} : AddToStackPrompt(answer)
    \/ \E ok, full \in BOOLEAN : FetchJob(ok, full)
    \/ BuildPlan
    \/ \E listOk, pathOk \in BOOLEAN : WorktreeCheck(listOk, pathOk)
    \/ Join
    \/ \E ok \in BOOLEAN : Checkout(ok)
    \/ \E fetchOk \in BOOLEAN, answer \in ReconcileAnswers : Reconcile(fetchOk, answer)
    \/ \E reads \in ReadOutcomes, mbIsTarget, cmdOk \in BOOLEAN :
          \E counts \in CommitCounts(reads) :
             Rebase(reads[1], counts[1], reads[2], mbIsTarget, reads[3], counts[2], cmdOk)
    \/ \E fetchOk, shaOk, pushOk \in BOOLEAN : Push(fetchOk, shaOk, pushOk)
    \/ \E ok \in BOOLEAN : UpdatePR(ok)
    \/ \E coOk, popOk \in BOOLEAN : Finish(coOk, popOk)
    \/ Exit
    \/ UserContinuesRebase
    \/ UserCherryPick

SpecQueries == Init /\ [][NextQueries]_vars

\* ------------------------------------------------- the other commands

\* the state of one invocation of runSync, and the part of the world that
\* new, reparent, rename and prune never write
syncVars == <<pc, result, errKind, planVars, iterVars, flagVars, jobVars, pushed, touched,
              popLog, session>>
restVars == <<cfgStashed, cfgOriginal, dirty, stash, rebaseInProgress, cherryPickInProgress,
              remote, tracking, otherWorktrees, configWritable>>

\* GetChildrenOf: the stack branches whose parent is branch, sorted by name
GetChildrenOf(par, branch) ==
    LET names == {b.Name : b \in {x \in GetStackBranches(par) : x.Parent = branch}}
        byName == SortStrings(CHOOSE s \in Orderings(names) : TRUE)
    IN  [i \in 1..Len(byName) |-> StackBranch(byName[i], branch)]

RECURSIVE DescendantWalk(_, _, _, _)
DescendantWalk(par, ancestor, current, visited) ==
    IF current = NoBranch \/ current \in visited THEN FALSE
    ELSE LET parent == IF current \in DOMAIN par THEN par[current] ELSE NoBranch
         IN  IF parent = NoBranch THEN FALSE
             ELSE IF parent = ancestor THEN TRUE
             ELSE DescendantWalk(par, ancestor, parent, visited \cup {current})

\* isDescendant: walking up from possibleDescendant reaches ancestor
isDescendant(par, ancestor, possibleDescendant) ==
    DescendantWalk(par, ancestor, possibleDescendant, {})

\* what stack new <branchName> [explicitParent] does: the branches, the
\* checked-out branch and the edges it leaves, and the parent it recorded
NewEffect(par, local, current, branchName, explicitParent, createOk) ==
    LET parent == IF explicitParent # NoBranch THEN explicitParent ELSE current
        fail == IF branchName \in local THEN "already exists"
                ELSE IF explicitParent # NoBranch /\ explicitParent \notin local
                THEN "parent does not exist"
                ELSE IF ~createOk THEN "failed to create branch"
                ELSE IF ~configWritable THEN "failed to set parent config"
                ELSE ""
        created == fail \in {"", "failed to set parent config"}
    IN  [localBranches |-> IF created THEN local \cup {branchName} ELSE local,
         currentBranch |-> IF created THEN branchName ELSE current,
         parents |-> IF fail = "" THEN [par EXCEPT ![branchName] = parent] ELSE par,
         parent |-> parent,
         fail |-> fail]

\* stack new <branchName> [explicitParent]
runNew(branchName, explicitParent, createOk) ==
    LET e == NewEffect(parents, localBranches, currentBranch, branchName, explicitParent, createOk)
    IN  /\ pc = "idle"
        /\ localBranches' = e.localBranches
        /\ currentBranch' = e.currentBranch
        /\ parents' = e.parents
        /\ prEdits' = {}
        /\ UNCHANGED <<pr, restVars, syncVars>>

\* variant: the parent already recorded is not compared with the new one
ReparentEffect_NoSameCheck(par, prs, local, current, newParent, prEditOk) ==
    LET refused == \/ newParent \notin local
                   \/ newParent = current
                   \/ isDescendant(par, current, newParent)
        wrote == ~refused /\ configWritable
        hasPR == current \in DOMAIN prs /\ prs[current] # NoPR
        edited == wrote /\ hasPR
    IN  [parents |-> IF wrote THEN [par EXCEPT ![current] = newParent] ELSE par,
         pr |-> IF edited /\ prEditOk THEN [prs EXCEPT ![current].Base = newParent] ELSE prs,
         wrote |-> wrote,
         edited |-> edited]

\* what stack reparent <newParent> does on the current branch: the edges and
\* the PRs it leaves, whether it wrote the edge, whether it edited the PR
ReparentEffect(par, prs, local, current, newParent, prEditOk) ==
    LET currentParent == par[current]
        same == currentParent # NoBranch /\ newParent = currentParent
        refused == \/ newParent \notin local
                   \/ newParent = current
                   \/ isDescendant(par, current, newParent)
        wrote == ~same /\ ~refused /\ configWritable
        hasPR == current \in DOMAIN prs /\ prs[current] # NoPR
        edited == wrote /\ hasPR
    IN  [parents |-> IF wrote THEN [par EXCEPT ![current] = newParent] ELSE par,
         pr |-> IF edited /\ prEditOk THEN [prs EXCEPT ![current].Base = newParent] ELSE prs,
         wrote |-> wrote,
         edited |-> edited]

\* stack reparent <newParent>
runReparent(newParent, prEditOk) ==
    LET e == ReparentEffect(parents, pr, localBranches, currentBranch, newParent, prEditOk)
    IN  /\ pc = "idle"
        /\ parents' = e.parents
        /\ pr' = e.pr
        /\ prEdits' = IF e.edited THEN {<<currentBranch, newParent>>} ELSE {}
        /\ UNCHANGED <<currentBranch, localBranches, restVars, syncVars>>

\* stack rename <newName>
runRename(newName, renameOk) ==
    LET oldName == currentBranch
        renamedParent == parents[oldName]
        children == GetChildrenOf(parents, oldName)
        fail == IF renamedParent = NoBranch THEN "not part of a stack"
                ELSE IF newName \in localBranches THEN "already exists"
                ELSE IF ~renameOk THEN "failed to rename branch"
                ELSE IF ~configWritable THEN "failed to set new parent config"
                ELSE ""
        renamed == fail \in {"", "failed to set new parent config"}
        moved == [[parents EXCEPT ![newName] = renamedParent] EXCEPT ![oldName] = NoBranch]
    IN  /\ pc = "idle"
        /\ localBranches' = IF renamed THEN (localBranches \ {oldName}) \cup {newName}
                            ELSE localBranches
        /\ currentBranch' = IF renamed THEN newName ELSE currentBranch
        /\ parents' = IF fail = ""
                      THEN [n \in DOMAIN parents |->
                              IF \E i \in 1..Len(children) : children[i].Name = n
                              THEN newName ELSE moved[n]]
                      ELSE parents
        /\ prEdits' = {}
        /\ UNCHANGED <<pr, restVars, syncVars>>

\* stack prune [--all]: failing holds the branches git refuses to delete
runPrune(pruneAll, prOk, failing) ==
    LET branchNames == IF pruneAll THEN localBranches \ {Base, currentBranch}
                       ELSE {b.Name : b \in GetStackBranches(parents)}
        mergedBranches == IF prOk
                          THEN {n \in branchNames : n \in DOMAIN pr /\ pr[n].State = "MERGED"}
                          ELSE {}
        deleted == (mergedBranches \cap localBranches) \ ({currentBranch} \cup failing)
    IN  /\ pc = "idle"
        /\ parents' = [n \in DOMAIN parents |->
                         IF n \in mergedBranches /\ configWritable THEN NoBranch ELSE parents[n]]
        /\ localBranches' = localBranches \ deleted
        /\ prEdits' = {}
        /\ UNCHANGED <<currentBranch, pr, restVars, syncVars>>

\* git checkout <branch>, typed by the user between two commands
UserCheckout(branch) ==
    /\ pc = "idle"
    /\ branch \in localBranches
    /\ ~rebaseInProgress /\ ~cherryPickInProgress
    /\ currentBranch' = branch
    /\ UNCHANGED <<parents, pr, localBranches, prEdits, restVars, syncVars>>

\* the sync process has ended; the next command starts on what it left
SyncExits ==
    /\ pc = "done"
    /\ pc' = "idle" /\ mode' = "none" /\ syncForce' = FALSE /\ originalBranch' = NoBranch
    /\ stashed' = FALSE /\ rebaseConflict' = FALSE /\ success' = FALSE
    /\ chain' = <<>> /\ stackBranchSet' = {} /\ sorted' = <<>> /\ idx' = 0
    /\ branchParent' = NoBranch /\ oldParent' = NoBranch /\ prCache' = EmptyCache
    /\ fetchJob' = "idle" /\ prJob' = "idle" /\ remoteBranches' = {}
    /\ branchExistsOnRemote' = FALSE
    /\ result' = "none" /\ errKind' = "" /\ pushed' = <<>> /\ prEdits' = {}
    /\ touched' = {} /\ popLog' = {} /\ lastCmd' = NoCmd /\ iterPushed' = FALSE
    /\ UNCHANGED <<worldVars, session>>

\* a repository with the stack main <- a <- b, where c is not created yet
InitEdges ==
    /\ cfgStashed = FALSE /\ cfgOriginal = NoBranch /\ dirty = FALSE /\ stash = <<>>
    /\ rebaseInProgress = FALSE /\ cherryPickInProgress = FALSE
    /\ remote = AllBranches /\ tracking = AllBranches /\ otherWorktrees = {}
    /\ configWritable = TRUE
    /\ parents = EdgeMap("main", "a", NoBranch)
    /\ localBranches = AllBranches \ {"c"}
    /\ currentBranch \in {"b", Base}
    /\ \E sa \in {"OPEN", "MERGED"} :
          pr = [b \in Branches |-> IF b = "a" THEN [State |-> sa, Base |-> Base]
                                   ELSE IF b = "b" THEN [State |-> "OPEN", Base |-> "a"]
                                   ELSE NoPR]
    /\ LocalsIdle /\ sessionStashed = FALSE /\ followUp = FALSE

\* the commands in any order, every external command succeeding
NextEdges ==
    \/ \E n \in Branches, p \in AllBranches \cup {NoBranch} : runNew(n, p, TRUE)
    \/ \E p \in AllBranches : runReparent(p, TRUE)
    \/ \E n \in Branches : runRename(n, TRUE)
    \/ \E pruneAll \in BOOLEAN : runPrune(pruneAll, TRUE, {})
    \/ \E b \in AllBranches : UserCheckout(b)
    \/ SyncFresh(FALSE, TRUE, TRUE, TRUE)
    \/ DeferredCleanup(TRUE)
    \/ \E answer \in {"yes", "no"} : AddToStackPrompt(answer)
    \/ FetchJob(TRUE, TRUE)
    \/ PRJob(TRUE)
    \/ BuildPlan
    \/ WorktreeCheck(TRUE, TRUE)
    \/ Join
    \/ LoopHead
    \/ Checkout(TRUE)
    \/ Reconcile(TRUE, "same")
    \/ Rebase(TRUE, 0, TRUE, TRUE, TRUE, 0, TRUE)
    \/ Push(TRUE, TRUE, TRUE)
    \/ UpdatePR(TRUE)
    \/ Finish(TRUE, TRUE)
    \/ SyncExits

SpecEdges == InitEdges /\ [][NextEdges]_vars

\* ------------------------------------------- the graph operations alone

\* every way to record parents for the four names, cycles included
InitGraph ==
    /\ parents \in [AllBranches -> AllBranches \cup {NoBranch}]
    /\ cfgStashed = FALSE /\ cfgOriginal = NoBranch /\ currentBranch = Base
    /\ dirty = FALSE /\ stash = <<>>
    /\ rebaseInProgress = FALSE /\ cherryPickInProgress = FALSE
    /\ pr = [b \in Branches |-> NoPR]
    /\ remote = AllBranches /\ tracking = {Base} /\ otherWorktrees = {}
    /\ localBranches = AllBranches /\ configWritable = TRUE
    /\ LocalsIdle /\ sessionStashed = FALSE /\ followUp = FALSE

\* TopologicalSort applied to the recorded stack branches in some order
CallTopologicalSort(order) ==
    LET t == TopologicalSort(order)
    IN  /\ pc = "idle"
        /\ sorted' = t.sorted
        /\ ReturnEarly(IF t.err THEN "err" ELSE "ok", "TopologicalSort")
        /\ UNCHANGED <<worldVars, chain, stackBranchSet, iterVars, flagVars, jobVars, ghostVars>>

\* GetStackChain applied to a branch
CallGetStackChain(branch) ==
    LET c == GetStackChain(parents, branch)
    IN  /\ pc = "idle"
        /\ chain' = c.chain
        /\ originalBranch' = branch
        /\ ReturnEarly(IF c.err THEN "err" ELSE "ok", "GetStackChain")
        /\ UNCHANGED <<worldVars, stackBranchSet, sorted, iterVars, mode, syncForce, stashed,
                       rebaseConflict, success, jobVars, ghostVars>>

NextGraph ==
    \/ \E order \in Orderings(GetStackBranches(parents)) : CallTopologicalSort(order)
    \/ \E branch \in AllBranches : CallGetStackChain(branch)

SpecGraph == InitGraph /\ [][NextGraph]_vars

\* new, reparent, rename and prune alone, with the user's checkouts
NextCommands ==
    \/ \E n \in Branches, p \in AllBranches \cup {NoBranch} : runNew(n, p, TRUE)
    \/ \E p \in AllBranches, prEditOk \in BOOLEAN : runReparent(p, prEditOk)
    \/ \E n \in Branches : runRename(n, TRUE)
    \/ \E pruneAll \in BOOLEAN, failing \in SUBSET Branches : runPrune(pruneAll, TRUE, failing)
    \/ \E b \in AllBranches : UserCheckout(b)

SpecCommands == InitEdges /\ [][NextCommands]_vars

\* ----------------------------------------------------------------- claims

Syncing == mode \in {"fresh", "resume"}
RecordCleared == ~cfgStashed /\ cfgOriginal = NoBranch
ConflictExit == pc = "done" /\ Syncing /\ lastCmd.op = "rebase" /\ ~lastCmd.ok
InIteration == pc \in {"checkout", "reconcile", "rebase", "push", "prbase"}
OnChain == IF chain = <<>> THEN {originalBranch} ELSE Range(chain)
IndexIn(seq, name) == CHOOSE i \in 1..Len(seq) : seq[i] = name

\* C1: a sync (fresh or resumed) whose rebase stopped with a conflict exits
\* with an error, has popped no stash, and leaves the resume record in place:
\* the original branch is recorded, and the stashed key is set exactly when
\* the fresh start of the session took a stash.
C1_ConflictKeepsRecord ==
    ConflictExit => /\ result = "err"
                    /\ popLog = {}
                    /\ cfgOriginal # NoBranch
                    /\ cfgStashed <=> sessionStashed

\* a resumed sync that took a stash at its fresh start stops on a conflict again
C1_Witness == ConflictExit /\ mode = "resume" /\ cfgStashed /\ stash # <<>>

\* C2: every fresh sync that returns success leaves both keys of the resume
\* record unset (end of the loop, empty stack, declined prompt).
C2_FreshSuccessClearsRecord ==
    (pc = "done" /\ mode = "fresh" /\ result = "ok") => RecordCleared

\* C3: a sync that fails with a fatal error other than a rebase conflict ends
\* with the stash popped if one was taken and with both keys unset.
C3_FatalErrorCleansUp ==
    (pc = "done" /\ Syncing /\ result = "err" /\ ~rebaseConflict
        /\ errKind \notin {"no interrupted sync to resume"})
    => /\ RecordCleared
       /\ stashed => popLog # {}

\* C4: sync --abort started with a resume record, or with a rebase or a
\* cherry-pick in progress, returns success and leaves both keys unset,
\* whichever of its steps fail.
C4_AbortClearsRecord ==
    [][ (pc = "idle" /\ mode' = "abort"
           /\ (HasSavedState \/ rebaseInProgress \/ cherryPickInProgress))
        => (result' = "ok" /\ ~cfgStashed' /\ cfgOriginal' = NoBranch) ]_vars

\* an abort whose rebase abort and stash pop both failed has returned success
C4_Witness ==
    /\ pc = "done" /\ mode = "abort" /\ result = "ok"
    /\ rebaseInProgress
    /\ \E e \in popLog : ~e.ok

\* the parent the plan recorded for a branch, the base branch when it had none
RecordedParent(p) ==
    LET rec == {i \in 1..Len(sorted) : sorted[i].Name = p}
        par == IF rec # {} THEN sorted[CHOOSE i \in rec : TRUE].Parent ELSE ParentOf(p)
    IN  IF par = NoBranch THEN Base ELSE par

\* C5: when the parent P of branch B has a merged PR, B's parent edge is
\* rewritten to the parent recorded for P, also when P was visited earlier in
\* the same sync, and to the base branch only when P had no recorded parent.
C5_CollapseToGrandparent ==
    (pc = "checkout" /\ oldParent # NoBranch)
    => (branchParent = RecordedParent(oldParent) /\ parents[Cur.Name] = RecordedParent(oldParent))

C7_ParentBeforeChild ==
    /\ InIteration => \A j \in 1..Len(sorted) : sorted[j].Name = Cur.Parent => j < idx
    /\ \A i \in 1..Len(sorted), j \in 1..Len(sorted) :
          (sorted[j].Name = sorted[i].Parent
              /\ sorted[i].Name \in Range(pushed) /\ sorted[j].Name \in Range(pushed))
          => IndexIn(pushed, sorted[j].Name) < IndexIn(pushed, sorted[i].Name)

\* a grandchild is in its iteration after its parent and grandparent were pushed
C7_Witness == InIteration /\ idx = 3 /\ Len(pushed) = 2 /\ pushed[2] = Cur.Parent

\* C8 as stated: a PR-base edit for B is issued only in an iteration that
\* pushed B.
C8_EditOnlyAfterPush == lastCmd.op = "prbase" => iterPushed

\* C8 amended: a PR-base edit for B comes after the push step of B's
\* iteration: B was pushed in this iteration exactly when it was found on
\* origin, and the edit is issued either way.
C8_EditAfterPushStep == lastCmd.op = "prbase" => (iterPushed <=> branchExistsOnRemote)

\* a PR base was edited in an iteration that pushed its branch
C8_Witness == lastCmd.op = "prbase" /\ iterPushed /\ lastCmd.arg \in Range(pushed)

\* C9: whenever a PR base is edited to P, branch P exists on origin.
C9_NewBaseOnOrigin == lastCmd.op = "prbase" => lastCmd.kind \in remote

\* C10: a sync changes the parent edge, the PR base, the checked-out state or
\* the remote copy only of branches on the chain of the branch it started on.
C10_OnlyChainBranchesChange ==
    [][ \A b \in Branches :
          (Syncing' /\ \/ parents'[b] # parents[b]
                       \/ pr'[b] # pr[b]
                       \/ (currentBranch' = b /\ currentBranch # b)
                       \/ (b \in Range(pushed') /\ b \notin Range(pushed))
                       \/ (b \in touched' /\ b \notin touched))
          => b \in OnChain' ]_vars

\* a sync has completed on a chain that leaves another stack branch aside
C10_Witness ==
    /\ pc = "done" /\ Syncing /\ errKind = "complete" /\ pushed # <<>>
    /\ \E b \in Branches : parents[b] # NoBranch /\ b \notin Range(chain)

\* C11: a sync run right after a complete sync, with nothing changed in
\* between, issues no reset, no rebase, no push and no PR-base edit.
C11_SecondRunIssuesNothing ==
    (followUp /\ Syncing) => lastCmd.op \notin {"reset", "rebase", "push", "prbase"}

\* the branch met after following steps parent edges up from b
RECURSIVE Up(_, _, _)
Up(par, b, steps) ==
    IF steps = 0 \/ b \notin DOMAIN par THEN b ELSE Up(par, par[b], steps - 1)

\* b lies on a cycle of parent edges
OnCycle(par, b) == \E k \in 1..Cardinality(DOMAIN par) : Up(par, b, k) = b
HasCycle(par) == \E b \in DOMAIN par : par[b] # NoBranch /\ OnCycle(par, b)

\* C12: from acyclic parent edges, no sequence of new, reparent, rename,
\* prune and sync leaves parent edges that contain a cycle.
C12_EdgesStayAcyclic == ~HasCycle(parents)

\* a branch of the plan is checked out in another worktree
WorktreeBlocked == Syncing /\ \E i \in 1..Len(sorted) : sorted[i].Name \in otherWorktrees

\* the sync has stopped with an error before any per-branch command
RefusedUntouched ==
    /\ pc \in {"return", "done"} /\ result = "err"
    /\ lastCmd.op \notin {"checkout", "reset", "rebase", "no rebase", "push", "prbase"}
    /\ pushed = <<>> /\ prEdits = {}
    /\ touched \subseteq {originalBranch}

\* C13 as stated: whenever a branch of the plan is checked out in another
\* worktree, the sync fails and has checked out, reset, rebased, pushed and
\* edited nothing.
C13_AnyWorktreeRefuses == (WorktreeBlocked /\ pc # "worktree") => RefusedUntouched

\* C13: when the worktree list was read and shows a branch of the plan in
\* another worktree, the sync fails with the worktree error and has checked
\* out, reset, rebased, pushed and edited nothing.
C13_ListedWorktreeRefuses ==
    (WorktreeBlocked /\ lastCmd.op = "worktree list" /\ lastCmd.ok)
        => (RefusedUntouched /\ errKind = "cannot sync: branch is checked out in worktree")

C13_Witness ==
    /\ WorktreeBlocked /\ lastCmd.op = "worktree list" /\ lastCmd.ok
    /\ pc = "done" /\ errKind = "cannot sync: branch is checked out in worktree"

\* a fresh sync begins in a state that holds a resume record
FreshOverRecord == pc = "idle" /\ (cfgStashed \/ cfgOriginal # NoBranch) /\ mode' = "fresh"

C15_ResumeAdoptsStashFlag ==
    (mode = "resume" /\ pc \notin {"idle", "return", "done"}) => (stashed <=> cfgStashed)

\* the invocation ends at once with an error and nothing has changed
FailsUntouched ==
    /\ pc' = "done" /\ result' = "err"
    /\ UNCHANGED <<worldVars, jobVars, pushed, prEdits, touched, popLog>>

\* C16: sync --resume without a resume record, and sync --abort without a
\* record, a rebase or a cherry-pick in progress, fail with an error and
\* write, stash, check out, fetch, rebase and push nothing.
C16_NothingToActOnFails ==
    [][/\ (pc = "idle" /\ mode' = "resume" /\ ~cfgStashed /\ cfgOriginal = NoBranch)
            => FailsUntouched
       /\ (pc = "idle" /\ mode' = "abort" /\ ~cfgStashed /\ cfgOriginal = NoBranch
               /\ ~rebaseInProgress /\ ~cherryPickInProgress)
            => FailsUntouched]_vars

C16_Witness ==
    /\ pc = "done" /\ mode = "resume" /\ errKind = "no interrupted sync to resume"
    /\ ~cfgStashed /\ cfgOriginal = NoBranch /\ dirty

\* the per-branch loop and what follows it
PastJoin == pc \in {"loop", "checkout", "reconcile", "rebase", "push", "prbase", "finish"}

\* C17: when the first branch of the loop is examined, and from then on,
\* the fetch job and the PR-load job have both ended; the fetch status is
\* acted on only once both have ended.
C17_JobsJoinedBeforeLoop ==
    /\ (Syncing /\ PastJoin) => (fetchJob = "ok" /\ prJob \in {"ok", "err"})
    /\ errKind = "failed to fetch" => (fetchJob = "err" /\ prJob \in {"ok", "err"})

C17_Witness ==
    /\ mode = "resume" /\ pc = "loop" /\ idx = 1 /\ lastCmd.op = "worktree list"
    /\ fetchJob = "ok" /\ prJob = "err"

\* C18: on parent edges that contain a cycle TopologicalSort returns an
\* error, and GetStackChain returns an error for every branch on a cycle.
C18_CycleIsAnError ==
    (pc = "done" /\ HasCycle(parents)) =>
        /\ errKind = "TopologicalSort" => result = "err"
        /\ (errKind = "GetStackChain" /\ OnCycle(parents, originalBranch)) => result = "err"

C18_Witness ==
    /\ pc = "done" /\ errKind = "GetStackChain" /\ result = "err"
    /\ OnCycle(parents, originalBranch) /\ parents[originalBranch] # originalBranch

\* Kahn's algorithm as the specification words it: among the nodes whose
\* parent is placed or that have no parent, the least name goes next
RECURSIVE LeastReadyFirst(_, _)
LeastReadyFirst(par, placed) ==
    LET nodes == {n \in DOMAIN par : par[n] # NoBranch} \cup ({par[n] : n \in DOMAIN par} \ {NoBranch})
        ready == {n \in nodes \ placed : par[n] = NoBranch \/ par[n] \in placed}
    IN  IF ready = {} THEN <<>>
        ELSE LET least == CHOOSE x \in ready : \A y \in ready : x = y \/ NameLess(x, y)
             IN  <<least>> \o LeastReadyFirst(par, placed \cup {least})

ExpectedOrder(par) ==
    LET names == SelectSeq(LeastReadyFirst(par, {}), LAMBDA n : par[n] # NoBranch)
    IN  [i \in 1..Len(names) |-> StackBranch(names[i], par[names[i]])]

ReparentIsNoOp(par, prs, local, current, newParent) ==
    \A prEditOk \in BOOLEAN :
        LET e == ReparentEffect(par, prs, local, current, newParent, prEditOk)
        IN  e.parents = par /\ e.pr = prs /\ ~e.wrote /\ ~e.edited

\* C20: reparent to the parent already recorded writes no config and edits
\* no PR base; a second reparent to the same parent changes nothing after
\* the first; reparent of a branch to the parent new has just created it
\* with changes nothing.
C20_ReparentIsIdempotent ==
    pc = "idle" =>
        /\ parents[currentBranch] # NoBranch
              => ReparentIsNoOp(parents, pr, localBranches, currentBranch, parents[currentBranch])
        /\ \A P \in AllBranches, prEditOk \in BOOLEAN :
              LET once == ReparentEffect(parents, pr, localBranches, currentBranch, P, prEditOk)
                  twice == ReparentEffect(once.parents, once.pr, localBranches, currentBranch, P,
                                          ~prEditOk)
              IN  /\ twice.parents = once.parents /\ twice.pr = once.pr
                  /\ once.wrote
                        => ReparentIsNoOp(once.parents, once.pr, localBranches, currentBranch, P)
        /\ \A X \in Branches, P \in AllBranches \cup {NoBranch} :
              LET made == NewEffect(parents, localBranches, currentBranch, X, P, TRUE)
              IN  made.fail = ""
                    => ReparentIsNoOp(made.parents, pr, made.localBranches, made.currentBranch,
                                      made.parent)

C20_Witness ==
    /\ pc = "idle"
    /\ \E e \in prEdits : e[1] = currentBranch /\ parents[currentBranch] = e[2]
    /\ \E X \in Branches : NewEffect(parents, localBranches, currentBranch, X, NoBranch, TRUE).fail = ""

\* C21: no command writes a parent edge whose child is the base branch.
C21_BaseHasNoParent == parents[Base] = NoBranch

\* the step renames the checked-out branch: only rename takes the
\* checked-out branch out of the local branches
RenameStep == pc = "idle" /\ currentBranch \notin localBranches'

\* C22: rename leaves the new name with the old name's former parent, the
\* old name with no parent edge, every former child of the old name
\* pointing at the new name, and every other edge as it was.
C22_RenameMovesEdges ==
    [][RenameStep =>
          /\ parents'[currentBranch'] = parents[currentBranch]
          /\ parents'[currentBranch] = NoBranch
          /\ \A n \in AllBranches \ {currentBranch, currentBranch'} :
                parents'[n] = IF parents[n] = currentBranch THEN currentBranch' ELSE parents[n]]_vars

\* the root of the chain to the original branch, when it lacks a parent edge
\* and is not the base branch
UnrootedRoot ==
    LET c == GetStackChain(parents, originalBranch)
    IN  IF ~c.err /\ Len(c.chain) >= 2 /\ c.chain[1] # Base /\ parents[c.chain[1]] = NoBranch
        THEN c.chain[1] ELSE NoBranch

RebaseStepWith(reads, counts, mbIsTarget, cmdOk) ==
    Rebase(reads[1], counts[1], reads[2], mbIsTarget, reads[3], counts[2], cmdOk)

\* C24 as stated, for the steps whose patch-unique and merge-base reads both
\* succeed: --onto the old parent after a collapse; otherwise no rebase
\* without patch-unique commits, a plain rebase when the merge-base is the
\* target's commit, and --onto the merge-base in every remaining case.
C24_RebaseChoiceAsStated ==
    [][pc = "rebase" => \A reads \in ReadOutcomes, mbIsTarget, cmdOk \in BOOLEAN :
         \A counts \in CommitCounts(reads) :
            (RebaseStepWith(reads, counts, mbIsTarget, cmdOk) /\ reads[1] /\ reads[2]) =>
               IF oldParent # NoBranch
               THEN lastCmd'.op = "rebase" /\ lastCmd'.kind = "onto old parent"
               ELSE IF counts[1] = 0 THEN lastCmd'.op = "no rebase"
               ELSE IF mbIsTarget THEN lastCmd'.op = "rebase" /\ lastCmd'.kind = "plain"
               ELSE lastCmd'.op = "rebase" /\ lastCmd'.kind = "onto merge-base"]_vars

\* C24 (amended): --onto the old parent after a collapse; otherwise a plain
\* rebase when the patch-unique read fails, no rebase without patch-unique
\* commits, a plain rebase when the merge-base read fails or the merge-base
\* is the target's commit, no rebase and a failed sync when the commits since
\* the merge-base number more than twice the patch-unique ones, and --onto
\* the merge-base in every remaining case.
C24_RebaseChoice ==
    [][pc = "rebase" => \A reads \in ReadOutcomes, mbIsTarget, cmdOk \in BOOLEAN :
         \A counts \in CommitCounts(reads) :
            RebaseStepWith(reads, counts, mbIsTarget, cmdOk) =>
               LET collapsed == oldParent # NoBranch
                   noUnique == ~collapsed /\ reads[1] /\ counts[1] = 0
                   plain == /\ ~collapsed
                            /\ \/ ~reads[1]
                               \/ counts[1] > 0 /\ (~reads[2] \/ mbIsTarget)
                   rejected == /\ ~collapsed /\ ~noUnique /\ ~plain
                               /\ reads[3] /\ counts[2] > 2 * counts[1]
               IN  /\ collapsed => lastCmd'.op = "rebase" /\ lastCmd'.kind = "onto old parent"
                   /\ noUnique => lastCmd'.op = "no rebase" /\ lastCmd'.ok
                   /\ plain => lastCmd'.op = "rebase" /\ lastCmd'.kind = "plain"
                   /\ rejected => lastCmd'.op = "no rebase" /\ ~lastCmd'.ok /\ result' = "err"
                   /\ (~collapsed /\ ~noUnique /\ ~plain /\ ~rejected) =>
                         lastCmd'.op = "rebase" /\ lastCmd'.kind = "onto merge-base"]_vars

C24_Witness ==
    /\ pc = "push"
    /\ oldParent = NoBranch
    /\ lastCmd.op = "rebase" /\ lastCmd.kind = "onto merge-base" /\ lastCmd.arg = Cur.Name

\* the step left the rebase closure with the polluted-history error and
\* without running a rebase
Rejected ==
    /\ lastCmd'.op = "no rebase" /\ lastCmd'.kind = "polluted"
    /\ result' = "err"
    /\ rebaseInProgress' = rebaseInProgress

\* C25 as stated, for the non-collapse steps whose three reads succeed and
\* whose merge-base is not the target's commit: more commits since the
\* merge-base than twice the patch-unique ones fails the sync without a
\* rebase, at most twice as many is not rejected.
C25_GuardAsStated ==
    [][pc = "rebase" => \A reads \in ReadOutcomes, mbIsTarget, cmdOk \in BOOLEAN :
         \A counts \in CommitCounts(reads) :
            (/\ RebaseStepWith(reads, counts, mbIsTarget, cmdOk)
             /\ oldParent = NoBranch /\ reads = <<TRUE, TRUE, TRUE>> /\ ~mbIsTarget) =>
               IF counts[2] > 2 * counts[1] THEN Rejected ELSE lastCmd'.kind # "polluted"]_vars

\* C25 (amended): a non-collapse rebase step is rejected, failing the sync
\* without any rebase, exactly when the branch has a patch-unique commit,
\* its merge-base is read and is not the target's commit, and the commits
\* since the merge-base are read and number more than twice the patch-unique
\* ones.
C25_Guard ==
    [][pc = "rebase" => \A reads \in ReadOutcomes, mbIsTarget, cmdOk \in BOOLEAN :
         \A counts \in CommitCounts(reads) :
            (RebaseStepWith(reads, counts, mbIsTarget, cmdOk) /\ oldParent = NoBranch) =>
               IF /\ reads = <<TRUE, TRUE, TRUE>> /\ ~mbIsTarget
                  /\ counts[1] > 0 /\ counts[2] > 2 * counts[1]
               THEN Rejected
               ELSE lastCmd'.kind # "polluted"]_vars

C25_Witness ==
    /\ pc = "return" /\ result = "err"
    /\ oldParent = NoBranch
    /\ lastCmd.op = "no rebase" /\ lastCmd.kind = "polluted" /\ ~lastCmd.ok
    /\ lastCmd.arg = Cur.Name
    /\ ~rebaseInProgress

\* the sync is returning, or has returned, from a rebase step that the
\* polluted-history guard rejected
PollutedReturn == pc \in {"return", "done"} /\ Syncing /\ lastCmd.kind = "polluted"

\* C26: a sync rejected by the polluted-history guard returns the
\* polluted-history error, not the error of a rebase conflict.
C26_PollutedErrorIsDistinct ==
    PollutedReturn => result = "err" /\ errKind = "branch history is polluted"

\* C27: a fresh sync that stashed and was rejected by the polluted-history
\* guard has popped its stash and cleared the resume record when it exits.
C27_PollutedExitRestores ==
    (PollutedReturn /\ pc = "done" /\ mode = "fresh" /\ stashed) =>
        /\ popLog # {}
        /\ RecordCleared

\* C28: a reconcile step resets the branch to origin/<branch> only when
\* --force is not set, the local and the remote commit differ and their
\* merge-base is the local commit; a branch ahead of origin (merge-base is
\* the remote commit) or diverged from it (merge-base is neither) is never
\* reset.
C28_ResetOnlyWhenBehind ==
    [][pc = "reconcile" =>
         \A fetchOk, resetOk \in BOOLEAN, l \in Shas, r \in Shas, mb \in Shas :
            (Reconcile(fetchOk, ReconcileAnswer(l, r, mb, resetOk)) /\ lastCmd'.op = "reset") =>
               /\ ~syncForce
               /\ l # r
               /\ mb = l
               /\ lastCmd'.arg = Cur.Name]_vars

C28_Witness ==
    /\ pc = "rebase"
    /\ ~syncForce
    /\ lastCmd = Cmd("reset", Cur.Name, "origin", TRUE)

\* C29: a push step without --force issues a lease-protected push: with the
\* expected commit when the fetch of the branch made in that step and the
\* read of origin/<branch> both succeed, a plain force-with-lease when either
\* fails; the unconditional force push is issued exactly under --force.
C29_PushIsLeaseProtected ==
    [][pc = "push" =>
         \A fetchOk, shaOk, pushOk \in BOOLEAN :
            (Push(fetchOk, shaOk, pushOk) /\ lastCmd'.op = "push") =>
               LET refreshed == fetchOk /\ Cur.Name \in remote
               IN  /\ lastCmd'.arg = Cur.Name
                   /\ lastCmd'.kind = "force" <=> syncForce
                   /\ (~syncForce /\ refreshed /\ shaOk) =>
                         /\ lastCmd'.kind = "force-with-lease=sha"
                         /\ Cur.Name \in tracking'
                   /\ (~syncForce /\ ~(refreshed /\ shaOk)) =>
                         lastCmd'.kind = "force-with-lease"]_vars

C29_Witness ==
    /\ pc = "prbase"
    /\ ~syncForce
    /\ lastCmd.op = "push" /\ lastCmd.kind = "force-with-lease=sha" /\ lastCmd.ok
    /\ lastCmd.arg = Cur.Name

\* C30: a push step pushes the branch only if its remote-tracking ref was
\* in the snapshot taken after the fetch, or a PR record exists for it and
\* the fetch of the branch made by the reconcile step succeeded; a branch
\* with neither a remote-tracking ref nor a PR record is not pushed.
C30_PushOnlyIfOnOrigin ==
    [][(pc = "push" /\ lastCmd'.op = "push") =>
          /\ lastCmd'.arg = Cur.Name
          /\ \/ Cur.Name \in remoteBranches
             \/ prCache[Cur.Name] # NoPR /\ Cur.Name \in tracking]_vars

C30_Witness ==
    /\ pc = "prbase"
    /\ lastCmd.op = "push" /\ lastCmd.ok
    /\ lastCmd.arg = Cur.Name
    /\ Cur.Name \notin remoteBranches
    /\ prCache[Cur.Name] # NoPR

\* the iteration is past a collapse whose write of the new parent edge failed
CollapseWriteFailed == InIteration /\ oldParent # NoBranch /\ branchParent = oldParent

\* C31: after a failed write of the collapsed parent edge, or of the
\* add-to-stack edge, the sync has stopped with an error: it is in no later
\* step of the iteration and has issued no rebase and no push.
C31_EdgeWriteFailureStops ==
    /\ ~(CollapseWriteFailed /\ lastCmd.op \in {"rebase", "push"})
    /\ errKind = "failed to set parent" =>
          result = "err" /\ lastCmd.op \notin {"rebase", "no rebase", "push"}

C33_WorktreeCheckAfterJoin ==
    [][(pc = "worktree" /\ pc' # "worktree") => (fetchJob # "running" /\ prJob # "running")]_vars

\* an edit of a PR's base that this sync asked for did not land
FailedEdit(e) == e \in prEdits /\ pr[e[1]].Base # e[2]

\* C34: the PR-base step never ends the sync: whether or not the edit
\* lands, the step goes on to the next branch of the order with no error.
C34_FailedEditGoesOn ==
    lastCmd.op = "prbase" => (pc = "loop" /\ result = "none" /\ errKind = "")

\* a sync that returned success with the record cleared although the edit
\* for a branch that is not the last of the order failed
C34_Witness ==
    /\ pc = "done" /\ Syncing /\ result = "ok" /\ RecordCleared
    /\ \E e \in prEdits :
          /\ FailedEdit(e)
          /\ \E i \in 1..Len(sorted) :
                sorted[i].Name = e[1] /\ i < Len(sorted) /\ sorted[Len(sorted)].Name \in Range(pushed)

\* the iteration has settled the parent of its branch
ParentSettled == pc \in {"checkout", "reconcile", "rebase", "push", "prbase"}

\* C35: in an iteration the rebase target is the local ref of the (possibly
\* collapsed) parent when the parent has a parent edge of its own, and
\* origin/<parent> when the parent is the base branch.
C35_TargetLocalOrOrigin ==
    ParentSettled =>
        /\ parents[branchParent] # NoBranch => RebaseTarget = [ref |-> branchParent, origin |-> FALSE]
        /\ branchParent = Base => RebaseTarget = [ref |-> Base, origin |-> TRUE]

\* a branch collapsed onto the base branch is about to be rebased onto
\* origin/<base>, after a branch that was rebased onto its local parent
C35_Witness ==
    /\ pc = "rebase"
    /\ oldParent # NoBranch /\ branchParent = Base
    /\ RebaseTarget = [ref |-> Base, origin |-> TRUE]
    /\ parents[Cur.Name] = Base

\* the step is a sync --abort that found something to act on
AbortStep == pc = "idle" /\ mode' = "abort" /\ result' = "ok"

\* C36 as stated: after sync --abort the top stash entry has been popped
\* exactly when the record marked a stash, and the checked-out branch is the
\* recorded original branch.
C36_AbortRestoresAsStated ==
    [][AbortStep =>
          /\ cfgStashed <=> (stash # <<>> /\ stash' = SubSeq(stash, 1, Len(stash) - 1))
          /\ cfgOriginal # NoBranch => currentBranch' = cfgOriginal]_vars

\* C36 (amended): sync --abort issues a stash pop exactly when the record
\* marked a stash, so the stash shrinks exactly when it did and the pop
\* succeeded, and it ends on the recorded original branch unless the
\* checkout of that branch failed; without a recorded original branch the
\* checked-out branch is left alone.
C36_AbortRestores ==
    [][AbortStep =>
         \A cpOk, rbOk, popOk, coOk \in BOOLEAN :
            SyncAbort(cpOk, rbOk, popOk, coOk) =>
               /\ (cfgStashed /\ popOk /\ stash # <<>>) <=>
                     (stash # <<>> /\ stash' = SubSeq(stash, 1, Len(stash) - 1))
               /\ ~(cfgStashed /\ popOk) => stash' = stash
               /\ (cfgOriginal # NoBranch /\ coOk) => currentBranch' = cfgOriginal
               /\ (cfgOriginal = NoBranch \/ ~coOk) => currentBranch' = currentBranch]_vars

\* an abort that popped the stash on another branch and returned to the
\* branch the stash was taken on
C36_Witness ==
    /\ pc = "done" /\ mode = "abort" /\ result = "ok" /\ RecordCleared
    /\ \E e \in popLog : e.ok /\ e.took = currentBranch /\ e.on # currentBranch

\* GetStackChain has just answered for originalBranch over edges without a cycle
ChainAnswered == pc = "done" /\ errKind = "GetStackChain" /\ ~HasCycle(parents)

\* the answer runs along the parent edges and ends at the branch asked for
ChainFollowsEdges ==
    /\ result = "ok"
    /\ Len(chain) >= 2
    /\ chain[Len(chain)] = originalBranch
    /\ \A i \in 1..(Len(chain) - 1) : parents[chain[i + 1]] = chain[i]

C38_PopOnOriginalBranch ==
    \A e \in popLog : e.ok => e.on = e.took

\* C39: when an invocation of sync has ended with every stash pop it made
\* successful, no stash entry pushed by sync is left without the stashed
\* key of the resume record set.
C39_NoStashWithoutRecord ==
    (pc = "done" /\ mode \in {"fresh", "resume", "abort"} /\ \A e \in popLog : e.ok)
    => (stash # <<>> => cfgStashed)

\* C40: once the two background jobs are launched, sync does not return,
\* and its deferred cleanup does not run, while one of them is still
\* running.
C40_JobsFinishedAtReturn ==
    (pc \in {"return", "done"} /\ Syncing) => (fetchJob # "running" /\ prJob # "running")

====
